---- MODULE Spec2Model ----
(***************************************************************************)
(* Model of src/App.py: a multi-tenant SMS relay.  Inbound webhooks are    *)
(* resolved to a tenant through the in-memory tenant tables, answered      *)
(* through the agent (Retell) or the tenant's opening line, sent through   *)
(* the gateway (Smstools) and metered in monthly_usage; the admin          *)
(* endpoints reload the tenant tables, adjust usage and add the overage    *)
(* invoice items (Stripe), guarded by the stripe_overage_runs markers.     *)
(*                                                                         *)
(* Every request runs in its own thread: a handler is a process whose      *)
(* steps are the points where it reads or writes shared state (the module  *)
(* globals, the database, a collaborator).                                 *)
(*                                                                         *)
(* Text that the code takes apart (phone numbers, tenant ids) is a         *)
(* sequence of one-character strings; text it only compares or passes on   *)
(* is a TLA+ string.                                                       *)
(***************************************************************************)
EXTENDS Integers, Sequences, FiniteSets, TLC

VARIABLES
    csvFile,              \* the tenants CSV on disk: [exists, rows]
    TENANTS_BY_VIRTUAL,   \* normalized virtual_number -> tenant
    TENANTS_BY_ID,        \* tenant_id -> tenant
    SMS_SESSIONS,         \* <<tenant_id, phone>> -> chat_id
    monthly_usage,        \* table monthly_usage: <<month, tenant_id>> -> outbound_count
    stripe_overage_runs,  \* table stripe_overage_runs: set of <<month, tenant_id>>
    invoiceItems,         \* Stripe: <<month, tenant_id>> -> amounts of the items created
    clock,                \* the current month (month_key())
    env,                  \* the process environment (credentials, DATABASE_URL)
    rl,                   \* the thread of /admin/reload-tenants
    h,                    \* the threads of /sms/inbound and /call/missed
    run,                  \* the threads of /admin/stripe/add-overages
    chats,                \* Retell: number of chats created so far
    outbox,               \* Smstools: the messages the gateway accepted
    bumps                 \* number of adjustments /admin/bump has made

vars == <<csvFile, TENANTS_BY_VIRTUAL, TENANTS_BY_ID, SMS_SESSIONS, monthly_usage,
          stripe_overage_runs, invoiceItems, clock, env, rl, h, run, chats, outbox,
          bumps>>

----------------------------------------------------------------------------
(* Bounds of the model *)

\* concurrent webhook requests
MaxHandlers == 2
\* invocations of /admin/stripe/add-overages
MaxRuns == 2
\* last month the clock reaches
MaxMonth == 2
\* administrative adjustments (/admin/bump) made in one behaviour
MaxBumps == 1

Handlers == 1..MaxHandlers
Runs     == 1..MaxRuns
Months   == 1..MaxMonth

----------------------------------------------------------------------------
(* Text *)

Digits == {"0", "1", "2", "3", "4", "5", "6", "7", "8", "9"}

IsDigit(c) == c \in Digits

IsSpace(c) == c = " "

RECURSIVE LStrip(_)
LStrip(s) == IF s # <<>> /\ IsSpace(Head(s)) THEN LStrip(Tail(s)) ELSE s

RECURSIVE RStrip(_)
RStrip(s) ==
    IF s # <<>> /\ IsSpace(s[Len(s)]) THEN RStrip(SubSeq(s, 1, Len(s) - 1)) ELSE s

\* str.strip()
Strip(s) == RStrip(LStrip(s))

\* s.startswith(p)
StartsWith(s, p) == Len(s) >= Len(p) /\ SubSeq(s, 1, Len(p)) = p

\* s[n:]
Drop(s, n) == IF n >= Len(s) THEN <<>> ELSE SubSeq(s, n + 1, Len(s))

\* re.sub(r"\D+", "", s)
DigitsOnly(s) == SelectSeq(s, IsDigit)

\* NormalizeTrunk without the conversion of the trunk prefix
NormalizeTrunkKeeps(s) == s

\* 0032xxxxxxxxx -> 32xxxxxxxxx
NormalizeTrunk(s) ==
    IF StartsWith(s, <<"0", "0", "3", "2">>) THEN <<"3", "2">> \o Drop(s, 4) ELSE s

\* 0xxxxxxxxx -> 32xxxxxxxxx when the length is 9 or 10
NormalizeNational(s) ==
    IF StartsWith(s, <<"0">>) /\ Len(s) \in {9, 10} THEN <<"3", "2">> \o Drop(s, 1) ELSE s

normalize_phone(raw) == NormalizeNational(NormalizeTrunk(DigitsOnly(Strip(raw))))

----------------------------------------------------------------------------
(* Tenants and the CSV *)

\* tenant ids
T1 == <<"t", "1">>
T2 == <<"t", "2">>

\* virtual numbers, as written in the CSV and as sent by the provider
V1     == <<"3", "2", "4", "6", "0", "0", "0", "0", "0", "0", "1">>
V1Nat  == <<"0", "4", "6", "0", "0", "0", "0", "0", "0", "1">>
V1Int  == <<"+", "3", "2", " ", "4", "6", "0", "0", "0", "0", "0", "0", "1">>
V2     == <<"3", "2", "4", "6", "0", "0", "0", "0", "0", "0", "2">>
V2Trk  == <<"0", "0", "3", "2", "4", "6", "0", "0", "0", "0", "0", "0", "2">>
VNone  == <<"3", "2", "4", "6", "0", "0", "0", "0", "0", "0", "9">>

\* TENANTS_BY_ID.get(tenant_id) or {}, and None of get_tenant_by_receiver
NoTenant ==
    [tenant_id |-> <<>>, stripe_customer_id |-> "", virtual_number |-> <<>>,
     retell_agent_id |-> "", plan |-> "", opening_line |-> ""]

Row(tid, cus, vn, agent, plan, line) ==
    [tenant_id |-> tid, stripe_customer_id |-> cus, virtual_number |-> vn,
     retell_agent_id |-> agent, plan |-> plan, opening_line |-> line]

\* what is at TENANTS_CSV_PATH: nothing, or a file with these rows
CsvOf(rows) == [exists |-> TRUE, rows |-> rows]

MissingFile == [exists |-> FALSE, rows |-> <<>>]

CsvA == << Row(T1, "cus_1", V1Int, "agent_1", "Basic", "Welkom"),
           Row(T2, "", V2Trk, "", "advanced", "") >>

CsvB == << Row(T2, "cus_2", V2, "", "advanced", ""),
           Row(<<>>, "", <<" ">>, "", "", ""),
           Row(T1, "cus_1", V1Nat, "agent_1", "Basic", "Welkom") >>

\* two rows with the same number, written in two ways
CsvC == << Row(T1, "cus_1", V1Int, "agent_1", "Basic", "Welkom"),
           Row(T2, "cus_2", V1Nat, "", "advanced", "") >>

CsvFiles == {CsvOf(CsvA), CsvOf(CsvB), CsvOf(CsvC), MissingFile}

EmptyTable == [k \in {} |-> NoTenant]

\* d[k] = v on a dict
Put(d, k, v) == [x \in DOMAIN d \cup {k} |-> IF x = k THEN v ELSE d[x]]

\* d.get(k), with NoTenant for None
Get(d, k) == IF k \in DOMAIN d THEN d[k] ELSE NoTenant

\* the tenant dict built from one CSV row
TenantOf(row) ==
    LET virtual_raw == Strip(row.virtual_number)
        tid         == Strip(row.tenant_id)
    IN  [row EXCEPT !.virtual_number = virtual_raw,
                    !.tenant_id = IF tid = <<>> THEN virtual_raw ELSE tid]

\* a row whose virtual_number is blank is skipped
RowSkipped(row) == Strip(row.virtual_number) = <<>>

RowIntoVirtual(tbl, row) ==
    Put(tbl, normalize_phone(TenantOf(row).virtual_number), TenantOf(row))

RowIntoId(tbl, row) == Put(tbl, TenantOf(row).tenant_id, TenantOf(row))

RECURSIVE LoadedVirtual(_, _)
LoadedVirtual(tbl, rows) ==
    IF rows = <<>> THEN tbl
    ELSE LoadedVirtual(IF RowSkipped(Head(rows)) THEN tbl
                       ELSE RowIntoVirtual(tbl, Head(rows)), Tail(rows))

RECURSIVE LoadedId(_, _)
LoadedId(tbl, rows) ==
    IF rows = <<>> THEN tbl
    ELSE LoadedId(IF RowSkipped(Head(rows)) THEN tbl
                  ELSE RowIntoId(tbl, Head(rows)), Tail(rows))

\* the tables load_tenants_from_csv leaves when it runs alone
TablesOfVirtual(file) ==
    IF file.exists THEN LoadedVirtual(EmptyTable, file.rows) ELSE EmptyTable

TablesOfId(file) == IF file.exists THEN LoadedId(EmptyTable, file.rows) ELSE EmptyTable

get_tenant_by_receiver(receiver) ==
    IF receiver = <<>> THEN NoTenant ELSE Get(TENANTS_BY_VIRTUAL, normalize_phone(receiver))

----------------------------------------------------------------------------
(* The environment *)

\* SMSTOOLS_CLIENT_ID/SECRET, RETELL_API_KEY, STRIPE_SECRET_KEY, DATABASE_URL: set or not
EnvAll == [sms |-> TRUE, retell |-> TRUE, stripe |-> TRUE, db |-> TRUE]

Envs == {EnvAll, [EnvAll EXCEPT !.sms = FALSE], [EnvAll EXCEPT !.retell = FALSE],
         [EnvAll EXCEPT !.stripe = FALSE], [EnvAll EXCEPT !.db = FALSE]}

db_available == env.db

stripe_ready == env.stripe

\* month_key(): the month of the clock
month_key == clock

----------------------------------------------------------------------------
(* /admin/reload-tenants: load_tenants_from_csv, statement by statement *)

RlIdle == [pc |-> "idle", rows |-> <<>>, i |-> 0,
           oldVirtual |-> EmptyTable, oldId |-> EmptyTable]

\* TENANTS_BY_VIRTUAL = {}
ReloadClearVirtual ==
    /\ rl.pc = "idle"
    /\ TENANTS_BY_VIRTUAL' = EmptyTable
    /\ rl' = [RlIdle EXCEPT !.pc = "clearId", !.oldVirtual = TENANTS_BY_VIRTUAL,
                            !.oldId = TENANTS_BY_ID]
    /\ UNCHANGED <<csvFile, TENANTS_BY_ID, SMS_SESSIONS, monthly_usage, stripe_overage_runs,
                   invoiceItems, clock, env, h, run, chats, outbox, bumps>>

\* TENANTS_BY_ID = {}
ReloadClearId ==
    /\ rl.pc = "clearId"
    /\ TENANTS_BY_ID' = EmptyTable
    /\ rl' = [rl EXCEPT !.pc = "open"]
    /\ UNCHANGED <<csvFile, TENANTS_BY_VIRTUAL, SMS_SESSIONS, monthly_usage,
                   stripe_overage_runs, invoiceItems, clock, env, h, run, chats, outbox, bumps>>

\* os.path.exists(path): return when the file is missing, else open it and read the rows
ReloadOpen ==
    /\ rl.pc = "open"
    /\ rl' = IF ~csvFile.exists THEN [rl EXCEPT !.pc = "idle"]
             ELSE IF csvFile.rows = <<>> THEN [rl EXCEPT !.pc = "idle"]
             ELSE [rl EXCEPT !.pc = "rowVirtual", !.rows = csvFile.rows, !.i = 1]
    /\ UNCHANGED <<csvFile, TENANTS_BY_VIRTUAL, TENANTS_BY_ID, SMS_SESSIONS, monthly_usage,
                   stripe_overage_runs, invoiceItems, clock, env, h, run, chats, outbox, bumps>>

\* the thread after row i
RlNext(r) == IF r.i >= Len(r.rows) THEN [r EXCEPT !.pc = "idle"]
             ELSE [r EXCEPT !.pc = "rowVirtual", !.i = r.i + 1]

\* one row: skipped when its virtual_number is blank, else TENANTS_BY_VIRTUAL[...] = tenant
ReloadRowVirtual ==
    /\ rl.pc = "rowVirtual"
    /\ IF RowSkipped(rl.rows[rl.i])
       THEN /\ rl' = RlNext(rl)
            /\ UNCHANGED TENANTS_BY_VIRTUAL
       ELSE /\ TENANTS_BY_VIRTUAL' = RowIntoVirtual(TENANTS_BY_VIRTUAL, rl.rows[rl.i])
            /\ rl' = [rl EXCEPT !.pc = "rowId"]
    /\ UNCHANGED <<csvFile, TENANTS_BY_ID, SMS_SESSIONS, monthly_usage, stripe_overage_runs,
                   invoiceItems, clock, env, h, run, chats, outbox, bumps>>

\* TENANTS_BY_ID[tenant_id] = tenant
ReloadRowId ==
    /\ rl.pc = "rowId"
    /\ TENANTS_BY_ID' = RowIntoId(TENANTS_BY_ID, rl.rows[rl.i])
    /\ rl' = RlNext(rl)
    /\ UNCHANGED <<csvFile, TENANTS_BY_VIRTUAL, SMS_SESSIONS, monthly_usage,
                   stripe_overage_runs, invoiceItems, clock, env, h, run, chats, outbox, bumps>>

\* the operator replaces, or removes, the CSV on disk
EditCsv ==
    /\ \E f \in CsvFiles : f # csvFile /\ csvFile' = f
    /\ UNCHANGED <<TENANTS_BY_VIRTUAL, TENANTS_BY_ID, SMS_SESSIONS, monthly_usage,
                   stripe_overage_runs, invoiceItems, clock, env, rl, h, run, chats, outbox, bumps>>

\* the month turns
Tick ==
    /\ clock < MaxMonth
    /\ clock' = clock + 1
    /\ UNCHANGED <<csvFile, TENANTS_BY_VIRTUAL, TENANTS_BY_ID, SMS_SESSIONS, monthly_usage,
                   stripe_overage_runs, invoiceItems, env, rl, h, run, chats, outbox, bumps>>

----------------------------------------------------------------------------
(* monthly_usage *)

EmptyUsage == [k \in {} |-> 0]

\* Upsert with DO UPDATE SET outbound_count = EXCLUDED.outbound_count
UpsertOverwrites(tbl, key, amount) ==
    [k \in DOMAIN tbl \cup {key} |-> IF k = key THEN amount ELSE tbl[k]]

\* INSERT ... ON CONFLICT (month, tenant_id) DO UPDATE SET outbound_count = outbound_count + EXCLUDED.outbound_count
\* is one atomic statement of the database
Upsert(tbl, key, amount) ==
    [k \in DOMAIN tbl \cup {key} |->
        IF k = key THEN (IF key \in DOMAIN tbl THEN tbl[key] + amount ELSE amount)
        ELSE tbl[k]]

\* What the database answers to the statement of bump_monthly_outbound: it runs it, or
\* raises UndefinedTable (the table is then created and the statement run again, which
\* works or fails), or raises another error.  A table that is missing holds no row, and
\* is modelled as the table without rows.
DbOutcomes == {"ok", "undefined_then_ok", "undefined_then_error", "error"}

DbWrote(outcome) == outcome \in {"ok", "undefined_then_ok"}

\* monthly_usage after bump_monthly_outbound(tenant_id, amount)
bump_monthly_outbound(tbl, tenant_id, amount, outcome) ==
    IF ~db_available THEN tbl
    ELSE IF DbWrote(outcome) THEN Upsert(tbl, <<month_key, tenant_id>>, amount)
    ELSE tbl

\* the order of ORDER BY tenant_id
Alphabet == <<" ", "+", "0", "1", "2", "3", "4", "5", "6", "7", "8", "9", "t">>

Rank(c) == CHOOSE i \in 1..Len(Alphabet) : Alphabet[i] = c

RECURSIVE TextLess(_, _)
TextLess(a, b) ==
    IF b = <<>> THEN FALSE
    ELSE IF a = <<>> THEN TRUE
    ELSE IF Head(a) = Head(b) THEN TextLess(Tail(a), Tail(b))
    ELSE Rank(Head(a)) < Rank(Head(b))

RECURSIVE Ordered(_)
Ordered(ids) ==
    IF ids = {} THEN <<>>
    ELSE LET first == CHOOSE a \in ids : \A b \in ids \ {a} : TextLess(a, b)
         IN  <<first>> \o Ordered(ids \ {first})

\* fetch_month_usage(month): the rows <<tenant_id, outbound_count>> of the month
fetch_month_usage(month) ==
    IF ~db_available THEN <<>>
    ELSE LET ids == Ordered({k[2] : k \in {x \in DOMAIN monthly_usage : x[1] = month}})
         IN  [n \in 1..Len(ids) |-> <<ids[n], monthly_usage[<<month, ids[n]>>]>>]

----------------------------------------------------------------------------
(* Retell *)

DefaultReply == "Bedankt voor je bericht."

DefaultGreeting == "Bedankt om te bellen. Hoe kan ik helpen?"

\* x or y on strings
OrElse(x, y) == IF x = "" THEN y ELSE x

\* str.strip() on the texts of the model: a text is blank, or has no outer blanks
StripText(t) == IF t = " " THEN "" ELSE t

Msg(role, content) == [role |-> role, content |-> content]

\* What create-chat-completion answers: an error (or timeout), or messages
AgentResponses ==
    { [ok |-> FALSE, messages |-> <<>>],
      [ok |-> TRUE, messages |-> <<>>],
      [ok |-> TRUE, messages |-> <<Msg("agent", "Eerst"), Msg("agent", "Hallo"), Msg("user", "hi")>>],
      [ok |-> TRUE, messages |-> <<Msg("agent", "Hallo"), Msg("agent", " ")>>] }

\* LastAgentReply that takes the first message of role agent
FirstAgentReply(messages, opening) ==
    LET agents == {i \in 1..Len(messages) : messages[i].role = "agent"}
    IN  IF agents = {} THEN opening
        ELSE OrElse(StripText(messages[CHOOSE i \in agents : \A j \in agents : i <= j].content),
                    opening)

\* for m in reversed(messages): the content of the last message of role agent, or the
\* opening line
RECURSIVE LastAgentReply(_, _)
LastAgentReply(messages, opening) ==
    IF messages = <<>> THEN opening
    ELSE LET m == messages[Len(messages)]
         IN  IF m.role = "agent" THEN OrElse(StripText(m.content), opening)
             ELSE LastAgentReply(SubSeq(messages, 1, Len(messages) - 1), opening)

\* no chat_id
NoChat == 0

EmptySessions == [k \in {} |-> NoChat]

\* SMS_SESSIONS[key] = chat_id
StoreSession(sessions, key, chat_id) ==
    [k \in DOMAIN sessions \cup {key} |-> IF k = key THEN chat_id ELSE sessions[k]]

----------------------------------------------------------------------------
(* Smstools *)

\* What the POST to the gateway gives: a response with a status code, or an exception
Response(code) == [raised |-> FALSE, status_code |-> code]

Raised == [raised |-> TRUE, status_code |-> 0]

NotPosted == [raised |-> FALSE, status_code |-> 0]

GatewayOutcomes == {Response(200), Response(300), Raised}

\* Confirmed with 200 <= r.status_code <= 300
ConfirmedUpTo300(outcome) ==
    ~outcome.raised /\ 200 <= outcome.status_code /\ outcome.status_code <= 300

\* 200 <= r.status_code < 300
Confirmed(outcome) == ~outcome.raised /\ 200 <= outcome.status_code /\ outcome.status_code < 300

----------------------------------------------------------------------------
(* /sms/inbound and /call/missed *)

Receivers == {V1Nat, V2, VNone, <<>>}

Senders == {"32499000000", ""}

Texts == {"hello", ""}

\* A webhook event as the handlers see it: a JSON object, whose fields are at the top
\* level (message "none") or inside its "message" object (message "object"), or whose
\* "message" is a text (message "text"); or a JSON value that is no object, truthy
\* ("scalar") or falsy ("falsy": 0, "", {}, [])
Event(type, message, receiver, sender, text) ==
    [type |-> type, message |-> message, receiver |-> receiver, sender |-> sender,
     text |-> text]

\* None
NoEvent == Event("none", "none", <<>>, "", "")

ScalarEvent == Event("scalar", "none", <<>>, "", "")

FalsyEvent == Event("falsy", "none", <<>>, "", "")

\* the message of 32499000000 to receiver, with its fields at the top level
Hello(receiver) == Event("object", "none", receiver, "32499000000", "hello")

ObjectEvents ==
    {Event("object", "none", r, s, t) : r \in Receivers, s \in Senders, t \in Texts}
    \cup {Event("object", "object", r, "32499000000", "hello") : r \in {V1Nat, VNone}}
    \cup {Event("object", "text", V1Nat, "32499000000", "hello"),
          Event("object", "text", <<>>, "", "")}

\* the events that come as the one element of a list
Events == {Hello(V1Nat), Hello(V2), ScalarEvent, FalsyEvent}

\* request.get_json(force=True, silent=True): None for a body that does not parse, a
\* scalar, a list of events, or one event object
Body(kind, items) == [kind |-> kind, items |-> items]

Payloads ==
    {Body("none", <<>>), Body("scalar", <<>>), Body("list", <<>>)}
    \cup {Body("list", <<e>>) : e \in Events}
    \cup {Body("object", <<e>>) : e \in ObjectEvents}
    \cup {Body("list", <<Hello(V1Nat), Hello(V2)>>), Body("list", <<ScalarEvent, Hello(V2)>>)}

extract_event(payload) ==
    IF payload.kind = "list"
    THEN (IF payload.items # <<>> THEN Head(payload.items) ELSE NoEvent)
    ELSE IF payload.kind = "object" THEN Head(payload.items)
    ELSE NoEvent

\* not event
NotEvent(event) == event.type \in {"none", "falsy"}

\* event.get(...) on a value that is no object, and msg.get(...) on a "message" that is
\* no object, raise AttributeError, which nothing catches
ExtractRaises(event) == event.type # "object" \/ event.message = "text"

\* (msg.get("receiver") or event.get("receiver") or "").strip()
extract_receiver(event) == Strip(event.receiver)

\* (msg.get("sender") or event.get("sender") or event.get("from") or "").strip()
extract_sender(event) == StripText(event.sender)

\* (msg.get("content") or event.get("content") or event.get("text") or "").strip()
extract_text(event) == StripText(event.text)

\* (event.get("caller") or event.get("from") or extract_sender(event)).strip()
extract_calling_number(event) == StripText(event.sender)

\* no answer of create-chat-completion: the call was not made, or it failed
NoAnswer == [ok |-> FALSE, messages |-> <<>>]

\* http: the status the request was answered with, 0 before; increment: what
\* bump_monthly_outbound gave send_sms, "" before the call; answer: what
\* create-chat-completion answered, until the reply is handed to send_sms
HIdle == [pc |-> "idle", receiver |-> <<>>, to |-> "",
          tenant |-> NoTenant, chat_id |-> NoChat, reply |-> "",
          gateway |-> NotPosted, metered |-> "none", month |-> 0, torn |-> FALSE,
          http |-> 0, increment |-> "", answer |-> NoAnswer]

\* return "OK", 200, and the 500 of an exception nothing catches
Answer(status) == [HIdle EXCEPT !.pc = "done", !.http = status]

\* the table the reload in progress is building
NewVirtual == IF rl.pc \in {"rowVirtual", "rowId"} THEN LoadedVirtual(EmptyTable, rl.rows)
              ELSE TablesOfVirtual(csvFile)

\* a lookup made during a reload misses a number that the table before the reload and
\* the table being loaded both hold
Torn(receiver) ==
    /\ rl.pc # "idle"
    /\ receiver # <<>>
    /\ normalize_phone(receiver) \in DOMAIN rl.oldVirtual \cap DOMAIN NewVirtual
    /\ get_tenant_by_receiver(receiver) = NoTenant

\* the requests are numbered in the order in which they come in
NextRequest(w) == h[w].pc = "idle" /\ \A v \in Handlers : v < w => h[v].pc # "idle"

\* if not tenant: return "OK", 200; then the send, when there is something to send to
\* someone
AfterLookup(tenant, ready, next) ==
    IF tenant = NoTenant THEN "done" ELSE IF ready THEN next ELSE "done"

\* the request after the lookup of the tenant
Looked(receiver, to, tenant, reply, pc) ==
    [HIdle EXCEPT !.receiver = receiver, !.to = to, !.tenant = tenant,
                  !.torn = Torn(receiver), !.reply = reply, !.pc = pc,
                  !.http = IF pc = "done" THEN 200 ELSE 0]

\* what sms_inbound makes of a payload, up to the lookup of the tenant
sms_inbound(payload) ==
    LET event    == extract_event(payload)
        receiver == extract_receiver(event)
        sender   == extract_sender(event)
        text     == extract_text(event)
        tenant   == get_tenant_by_receiver(receiver)
    IN  IF NotEvent(event) THEN Answer(200)
        ELSE IF ExtractRaises(event) THEN Answer(500)
        ELSE Looked(receiver, sender, tenant, "",
                    AfterLookup(tenant, sender # "" /\ text # "", "ask"))

\* sms_inbound up to the lookup of the tenant
SmsInbound(w) ==
    /\ NextRequest(w)
    /\ \E payload \in Payloads : h' = [h EXCEPT ![w] = sms_inbound(payload)]
    /\ UNCHANGED <<csvFile, TENANTS_BY_VIRTUAL, TENANTS_BY_ID, SMS_SESSIONS, monthly_usage,
                   stripe_overage_runs, invoiceItems, clock, env, rl, run, chats, outbox, bumps>>

\* what call_missed makes of a payload, up to send_sms
call_missed(payload) ==
    LET event    == extract_event(payload)
        receiver == extract_receiver(event)
        caller   == extract_calling_number(event)
        tenant   == get_tenant_by_receiver(receiver)
    IN  IF NotEvent(event) THEN Answer(200)
        ELSE IF ExtractRaises(event) THEN Answer(500)
        ELSE Looked(receiver, caller, tenant,
                    IF tenant # NoTenant /\ caller # ""
                    THEN OrElse(tenant.opening_line, DefaultGreeting) ELSE "",
                    AfterLookup(tenant, caller # "", "send"))

\* call_missed up to send_sms
CallMissed(w) ==
    /\ NextRequest(w)
    /\ \E payload \in Payloads : h' = [h EXCEPT ![w] = call_missed(payload)]
    /\ UNCHANGED <<csvFile, TENANTS_BY_VIRTUAL, TENANTS_BY_ID, SMS_SESSIONS, monthly_usage,
                   stripe_overage_runs, invoiceItems, clock, env, rl, run, chats, outbox, bumps>>

Opening(tenant) == OrElse(tenant.opening_line, DefaultReply)

SessionKey(x) == <<x.tenant.tenant_id, x.to>>

\* HasAgent without the look at the agent of the tenant
HasAgentAnyTenant(tenant) == env.retell

\* not (not RETELL_API_KEY or not tenant.get("retell_agent_id"))
HasAgent(tenant) == env.retell /\ tenant.retell_agent_id # ""

\* ask_retell_via_sms up to the look in SMS_SESSIONS of get_or_create_chat_id
AskRetell(w) ==
    /\ h[w].pc = "ask"
    /\ h' = [h EXCEPT ![w] =
               IF ~HasAgent(h[w].tenant)
               THEN [h[w] EXCEPT !.reply = Opening(h[w].tenant), !.pc = "send"]
               ELSE IF SessionKey(h[w]) \in DOMAIN SMS_SESSIONS
               THEN [h[w] EXCEPT !.chat_id = SMS_SESSIONS[SessionKey(h[w])],
                                 !.pc = "complete"]
               ELSE [h[w] EXCEPT !.pc = "create"]]
    /\ UNCHANGED <<csvFile, TENANTS_BY_VIRTUAL, TENANTS_BY_ID, SMS_SESSIONS, monthly_usage,
                   stripe_overage_runs, invoiceItems, clock, env, rl, run, chats, outbox,
                   bumps>>

\* get_or_create_chat_id from the POST to create-chat: the chat is stored when the
\* answer holds a chat_id; else nothing is stored and the opening line is the reply
CreateChat(w) ==
    /\ h[w].pc = "create"
    /\ \E answered \in BOOLEAN :
          IF answered
          THEN /\ chats' = chats + 1
               /\ SMS_SESSIONS' = StoreSession(SMS_SESSIONS, SessionKey(h[w]), chats + 1)
               /\ h' = [h EXCEPT ![w] = [@ EXCEPT !.chat_id = chats + 1, !.pc = "complete"]]
          ELSE /\ h' = [h EXCEPT ![w] = [@ EXCEPT !.reply = Opening(h[w].tenant),
                                                  !.pc = "send"]]
               /\ UNCHANGED <<chats, SMS_SESSIONS>>
    /\ UNCHANGED <<csvFile, TENANTS_BY_VIRTUAL, TENANTS_BY_ID, monthly_usage,
                   stripe_overage_runs, invoiceItems, clock, env, rl, run, outbox, bumps>>

\* ask_retell_via_sms from the POST to create-chat-completion; the chat id is not read
\* after it
CompleteChat(w) ==
    /\ h[w].pc = "complete"
    /\ \E answer \in AgentResponses :
          h' = [h EXCEPT ![w] = [@ EXCEPT
                  !.answer = answer, !.chat_id = NoChat,
                  !.reply = IF answer.ok
                            THEN LastAgentReply(answer.messages, Opening(h[w].tenant))
                            ELSE Opening(h[w].tenant),
                  !.pc = "send"]]
    /\ UNCHANGED <<csvFile, TENANTS_BY_VIRTUAL, TENANTS_BY_ID, SMS_SESSIONS, monthly_usage,
                   stripe_overage_runs, invoiceItems, clock, env, rl, run, chats, outbox, bumps>>

\* Sms with the number the event was addressed to as its sender
SmsFromReceiver(w, x) == [by |-> w, sender |-> x.receiver, to |-> x.to, message |-> x.reply]

\* the payload of the POST to the gateway: message, to, sender
Sms(w, x) == [by |-> w, sender |-> x.tenant.virtual_number, to |-> x.to, message |-> x.reply]

\* send_sms up to the answer of the gateway; the reply and the chat id are not read
\* again by the request once the message is handed over
SendSms(w) ==
    /\ h[w].pc = "send"
    /\ IF h[w].to = "" \/ h[w].reply = "" \/ ~env.sms
       THEN /\ h' = [h EXCEPT ![w] = [@ EXCEPT !.reply = "", !.chat_id = NoChat,
                                               !.answer = NoAnswer,
                                               !.pc = "done", !.http = 200]]
            /\ UNCHANGED outbox
       ELSE \E outcome \in GatewayOutcomes :
               /\ h' = [h EXCEPT ![w] = [@ EXCEPT !.gateway = outcome,
                           !.reply = "", !.chat_id = NoChat, !.answer = NoAnswer,
                           !.pc = IF Confirmed(outcome) THEN "bump" ELSE "done",
                           !.http = IF Confirmed(outcome) THEN 0 ELSE 200]]
               /\ outbox' = IF Confirmed(outcome) THEN outbox \cup {Sms(w, h[w])} ELSE outbox
    /\ UNCHANGED <<csvFile, TENANTS_BY_VIRTUAL, TENANTS_BY_ID, SMS_SESSIONS, monthly_usage,
                   stripe_overage_runs, invoiceItems, clock, env, rl, run, chats, bumps>>

\* What bump_monthly_outbound gives its caller: it returns None when DATABASE_URL is
\* not set and after the statement, and its excepts log the error and fall through
Increment(outcome) == "None"

\* send_sms after a 2xx: bump_monthly_outbound(tenant["tenant_id"], 1)
BumpUsage(w) ==
    /\ h[w].pc = "bump"
    /\ \E outcome \in DbOutcomes :
          /\ monthly_usage' =
                bump_monthly_outbound(monthly_usage, h[w].tenant.tenant_id, 1, outcome)
          /\ h' = [h EXCEPT ![w] = [@ EXCEPT
                      !.metered = IF ~db_available THEN "disabled"
                                  ELSE IF DbWrote(outcome) THEN "ok" ELSE "failed",
                      !.month = IF db_available /\ DbWrote(outcome) THEN month_key ELSE 0,
                      !.increment = Increment(outcome),
                      !.pc = "done", !.http = 200]]
    /\ UNCHANGED <<csvFile, TENANTS_BY_VIRTUAL, TENANTS_BY_ID, SMS_SESSIONS,
                   stripe_overage_runs, invoiceItems, clock, env, rl, run, chats, outbox, bumps>>

----------------------------------------------------------------------------
(* /admin/bump *)

TenantInputs == {T1, <<>>}

\* the amount of the payload; 0 also stands for no amount
AmountInputs == {-1, 0, 1}

\* int(payload.get("amount") or 1)
AmountOf(a) == IF a = 0 THEN 1 ELSE a

\* admin_bump: 400 without tenant_id, else bump_monthly_outbound(tenant_id, amount)
AdminBump ==
    /\ bumps < MaxBumps
    /\ \E tenant_id \in TenantInputs, a \in AmountInputs, outcome \in DbOutcomes :
          monthly_usage' =
             IF Strip(tenant_id) = <<>> THEN monthly_usage
             ELSE bump_monthly_outbound(monthly_usage, Strip(tenant_id), AmountOf(a), outcome)
    /\ bumps' = IF monthly_usage' = monthly_usage THEN bumps ELSE bumps + 1
    /\ UNCHANGED <<csvFile, TENANTS_BY_VIRTUAL, TENANTS_BY_ID, SMS_SESSIONS,
                   stripe_overage_runs, invoiceItems, clock, env, rl, h, run, chats, outbox>>

----------------------------------------------------------------------------
(* /admin/stripe/add-overages *)

\* PLAN_LIMITS.get(plan, 0)
PlanLimit(plan) == IF plan = "basic" THEN 200 ELSE IF plan = "advanced" THEN 400 ELSE 0

\* Lower that leaves the plan as it is written
LowerKeeps(plan) == plan

\* str.lower() on the plans of the model
Lower(plan) == IF plan = "Basic" THEN "basic"
               ELSE IF plan = "Advanced" THEN "advanced" ELSE plan

Max(a, b) == IF a >= b THEN a ELSE b

\* extra = max(0, int(outbound) - int(limit))
Extra(tenant, outbound) == Max(0, outbound - PlanLimit(Lower(tenant.plan)))

\* the default of price_cents
DefaultPrice == 17

\* the month of the payload: a month that has begun (later months have no usage rows
\* either); 0 stands for no month
MonthInputs == {0} \cup {m \in Months : m <= clock}

\* the price_cents of the payload; 0 also stands for no price
PriceInputs == {0, 19}

\* previous_month_key()
previous_month_key == clock - 1

NoItems == [k \in {} |-> <<>>]

ItemsOf(key) == IF key \in DOMAIN invoiceItems THEN invoiceItems[key] ELSE <<>>

\* stripe.InvoiceItem.create(...)
CreateItem(items, key, item) ==
    [k \in DOMAIN items \cup {key} |->
        IF k = key THEN (IF key \in DOMAIN items THEN Append(items[key], item) ELSE <<item>>)
        ELSE items[k]]

\* already_ran_overage that finds no marker
already_ran_never(month, tenant_id) == FALSE

\* already_ran_overage(month, tenant_id)
already_ran_overage(month, tenant_id) == <<month, tenant_id>> \in stripe_overage_runs

\* mark_ran_overage(month, tenant_id): INSERT ... ON CONFLICT DO NOTHING
mark_ran_overage(marks, month, tenant_id) == marks \cup {<<month, tenant_id>>}

NoResult == [created |-> {}, no_customer |-> 0, already_run |-> 0, no_extra |-> 0]

RunIdle == [pc |-> "idle", month |-> 0, price_cents |-> 0, rows |-> <<>>, i |-> 0,
            tenant |-> NoTenant, result |-> NoResult, http |-> 0,
            declined |-> {}, unmarked |-> {}]

\* the request answered: the locals of the loop and the price are gone; without a 200
\* so is the result
Returned(x, status) ==
    [x EXCEPT !.pc = "done", !.http = status, !.rows = <<>>, !.i = 0, !.tenant = NoTenant,
              !.price_cents = 0,
              !.result = IF status = 200 THEN @ ELSE NoResult]

\* the thread after row i of the loop
RunNext(x) == IF x.i >= Len(x.rows) THEN Returned(x, 200)
              ELSE [x EXCEPT !.pc = "tenant", !.i = x.i + 1]

RowTenant(x) == x.rows[x.i][1]

RowOutbound(x) == x.rows[x.i][2]

\* the runs are numbered in the order in which they are asked for
NextRun(r) == run[r].pc = "idle" /\ \A q \in Runs : q < r => run[q].pc # "idle"

\* admin_stripe_add_overages up to the loop: the checks, then rows = fetch_month_usage(month)
RunBegin(r) ==
    /\ NextRun(r)
    /\ \E m \in MonthInputs, p \in PriceInputs, db_ok \in BOOLEAN :
          LET month == IF m = 0 THEN previous_month_key ELSE m
              rows  == fetch_month_usage(month)
              begun == [run[r] EXCEPT !.month = month, !.rows = rows,
                                      !.price_cents = IF p = 0 THEN DefaultPrice ELSE p]
          IN  run' = [run EXCEPT ![r] =
                        IF ~stripe_ready \/ ~db_available THEN Returned(@, 400)
                        ELSE IF ~db_ok THEN Returned(@, 500)
                        ELSE IF rows = <<>> THEN Returned(begun, 200)
                        ELSE [begun EXCEPT !.pc = "tenant", !.i = 1]]
    /\ UNCHANGED <<csvFile, TENANTS_BY_VIRTUAL, TENANTS_BY_ID, SMS_SESSIONS, monthly_usage,
                   stripe_overage_runs, invoiceItems, clock, env, rl, h, chats, outbox, bumps>>

\* NoCustomer that lets every row through
NoCustomerNever(tenant) == FALSE

\* not stripe_customer_id
NoCustomer(tenant) == tenant.stripe_customer_id = ""

\* tenant = TENANTS_BY_ID.get(tenant_id) or {}; skipped without stripe_customer_id
RunTenant(r) ==
    /\ run[r].pc = "tenant"
    /\ LET tenant == Get(TENANTS_BY_ID, RowTenant(run[r]))
       IN  run' = [run EXCEPT ![r] =
                     IF NoCustomer(tenant)
                     THEN RunNext([@ EXCEPT !.result.no_customer = @ + 1])
                     ELSE [@ EXCEPT !.tenant = tenant, !.pc = "marker"]]
    /\ UNCHANGED <<csvFile, TENANTS_BY_VIRTUAL, TENANTS_BY_ID, SMS_SESSIONS, monthly_usage,
                   stripe_overage_runs, invoiceItems, clock, env, rl, h, chats, outbox, bumps>>

\* already_ran_overage(month, tenant_id), then extra; a database error ends the request
RunMarker(r) ==
    /\ run[r].pc = "marker"
    /\ \E db_ok \in BOOLEAN :
          run' = [run EXCEPT ![r] =
                    IF ~db_ok THEN Returned(@, 500)
                    ELSE IF already_ran_overage(@.month, RowTenant(@))
                    THEN RunNext([@ EXCEPT !.result.already_run = @ + 1])
                    ELSE IF Extra(@.tenant, RowOutbound(@)) <= 0
                    THEN [@ EXCEPT !.result.no_extra = @ + 1, !.pc = "markNoExtra"]
                    ELSE [@ EXCEPT !.pc = "invoice"]]
    /\ UNCHANGED <<csvFile, TENANTS_BY_VIRTUAL, TENANTS_BY_ID, SMS_SESSIONS, monthly_usage,
                   stripe_overage_runs, invoiceItems, clock, env, rl, h, chats, outbox, bumps>>

\* extra <= 0: mark_ran_overage(month, tenant_id); a database error ends the request
RunMarkNoExtra(r) ==
    /\ run[r].pc = "markNoExtra"
    /\ \E db_ok \in BOOLEAN :
          IF db_ok
          THEN /\ stripe_overage_runs' =
                     mark_ran_overage(stripe_overage_runs, run[r].month, RowTenant(run[r]))
               /\ run' = [run EXCEPT ![r] = RunNext(@)]
          ELSE /\ run' = [run EXCEPT ![r] = Returned(@, 500)]
               /\ UNCHANGED stripe_overage_runs
    /\ UNCHANGED <<csvFile, TENANTS_BY_VIRTUAL, TENANTS_BY_ID, SMS_SESSIONS, monthly_usage,
                   invoiceItems, clock, env, rl, h, chats, outbox, bumps>>

\* the invoice item of the row
Item(x) ==
    [customer |-> x.tenant.stripe_customer_id, extra |-> Extra(x.tenant, RowOutbound(x)),
     price_cents |-> x.price_cents,
     amount |-> Extra(x.tenant, RowOutbound(x)) * x.price_cents]

\* AfterInvoice with the marker written whether or not Stripe created the item
AfterInvoiceMarksAnyway(x, stripe_ok) == [x EXCEPT !.pc = "mark"]

\* the thread after stripe.InvoiceItem.create: on to mark_ran_overage, or, when Stripe
\* failed, logged and on to the next row with no marker written
AfterInvoice(x, stripe_ok) ==
    IF stripe_ok THEN [x EXCEPT !.pc = "mark"]
    ELSE RunNext([x EXCEPT !.declined = @ \cup {RowTenant(x)}])

\* stripe.InvoiceItem.create(...): the item is created, or Stripe fails
RunInvoice(r) ==
    /\ run[r].pc = "invoice"
    /\ \E stripe_ok \in BOOLEAN :
          /\ invoiceItems' =
                IF stripe_ok
                THEN CreateItem(invoiceItems, <<run[r].month, RowTenant(run[r])>>, Item(run[r]))
                ELSE invoiceItems
          /\ run' = [run EXCEPT ![r] = AfterInvoice(run[r], stripe_ok)]
    /\ UNCHANGED <<csvFile, TENANTS_BY_VIRTUAL, TENANTS_BY_ID, SMS_SESSIONS, monthly_usage,
                   stripe_overage_runs, clock, env, rl, h, chats, outbox, bumps>>

\* mark_ran_overage(month, tenant_id) after the item; a database error is caught by the
\* except of the call to Stripe, and the loop goes on
RunMark(r) ==
    /\ run[r].pc = "mark"
    /\ \E db_ok \in BOOLEAN :
          IF db_ok
          THEN /\ stripe_overage_runs' =
                     mark_ran_overage(stripe_overage_runs, run[r].month, RowTenant(run[r]))
               /\ run' = [run EXCEPT ![r] =
                             RunNext([@ EXCEPT !.result.created = @ \cup {RowTenant(run[r])}])]
          ELSE /\ run' = [run EXCEPT ![r] =
                             RunNext([@ EXCEPT !.unmarked = @ \cup {RowTenant(run[r])}])]
               /\ UNCHANGED stripe_overage_runs
    /\ UNCHANGED <<csvFile, TENANTS_BY_VIRTUAL, TENANTS_BY_ID, SMS_SESSIONS, monthly_usage,
                   invoiceItems, clock, env, rl, h, chats, outbox, bumps>>

----------------------------------------------------------------------------
(* The specifications *)

\* monthly_usage is durable: the process starts on what earlier processes counted
InitialUsages ==
    { EmptyUsage,
      Upsert(EmptyUsage, <<1, T1>>, 200),
      Upsert(Upsert(EmptyUsage, <<1, T1>>, 235), <<1, T2>>, 401) }

\* the process after start: load_tenants_from_csv has run, no request has come in
Init ==
    /\ csvFile \in {CsvOf(CsvA), CsvOf(CsvB)}
    /\ TENANTS_BY_VIRTUAL = TablesOfVirtual(csvFile)
    /\ TENANTS_BY_ID = TablesOfId(csvFile)
    /\ SMS_SESSIONS = EmptySessions
    /\ monthly_usage \in InitialUsages
    /\ stripe_overage_runs = {}
    /\ invoiceItems = NoItems
    /\ clock = 1
    /\ env \in Envs
    /\ rl = RlIdle
    /\ h = [w \in Handlers |-> HIdle]
    /\ run = [r \in Runs |-> RunIdle]
    /\ chats = 0
    /\ outbox = {}
    /\ bumps = 0

\* the same, on a database without usage rows
InitFresh == Init /\ monthly_usage = EmptyUsage

Webhook == \E w \in Handlers :
              \/ SmsInbound(w)
              \/ CallMissed(w)
              \/ AskRetell(w)
              \/ CreateChat(w)
              \/ CompleteChat(w)
              \/ SendSms(w)
              \/ BumpUsage(w)

Reload == \/ ReloadClearVirtual
          \/ ReloadClearId
          \/ ReloadOpen
          \/ ReloadRowVirtual
          \/ ReloadRowId

Reconcile == \E r \in Runs :
                \/ RunBegin(r)
                \/ RunTenant(r)
                \/ RunMarker(r)
                \/ RunMarkNoExtra(r)
                \/ RunInvoice(r)
                \/ RunMark(r)

Next == Webhook \/ Reload \/ EditCsv \/ Tick \/ AdminBump \/ Reconcile

Spec == Init /\ [][Next]_vars

\* the webhooks
NextDispatch == Webhook \/ Tick

\* the tenants of CsvA; the key of Stripe plays no part in the webhooks
InitDispatch == InitFresh /\ csvFile = CsvOf(CsvA) /\ env.stripe

SpecDispatch == InitDispatch /\ [][NextDispatch]_vars

\* the reload of the tenants, and the requests that look a tenant up meanwhile
Lookup == \E w \in Handlers : SmsInbound(w) \/ CallMissed(w)

NextReload == Reload \/ EditCsv \/ Lookup

InitReload == InitFresh /\ env = EnvAll

SpecReload == InitReload /\ [][NextReload]_vars

\* the billing runs and the adjustments of usage
NextBilling == Reconcile \/ AdminBump

\* the credentials of the gateway and of the agent play no part in billing, and a
\* month without usage rows has nothing to bill
InitBilling == Init /\ env.sms /\ env.retell /\ monthly_usage # EmptyUsage

SpecBilling == InitBilling /\ [][NextBilling]_vars

\* the billing runs one after another: a run begins when no other is under way
RunBeginAlone(r) == (\A q \in Runs : run[q].pc \in {"idle", "done"}) /\ RunBegin(r)

ReconcileAlone == \E r \in Runs :
                     \/ RunBeginAlone(r)
                     \/ RunTenant(r)
                     \/ RunMarker(r)
                     \/ RunMarkNoExtra(r)
                     \/ RunInvoice(r)
                     \/ RunMark(r)

NextBillingSeq == ReconcileAlone \/ AdminBump

SpecBillingSeq == InitBilling /\ [][NextBillingSeq]_vars

\* the operator configures the billing account of t2: CsvA is replaced by CsvB
ConfigureAccount ==
    /\ csvFile = CsvOf(CsvA)
    /\ csvFile' = CsvOf(CsvB)
    /\ UNCHANGED <<TENANTS_BY_VIRTUAL, TENANTS_BY_ID, SMS_SESSIONS, monthly_usage,
                   stripe_overage_runs, invoiceItems, clock, env, rl, h, run, chats, outbox, bumps>>

\* the billing runs one after another while the tenants are edited and reloaded
NextOnboard == ReconcileAlone \/ Reload \/ ConfigureAccount

\* the process after start on CsvA, with every credential set, t1 at its allowance and
\* t2, which has no billing account yet, one message over its own
InitOnboard ==
    /\ csvFile = CsvOf(CsvA)
    /\ TENANTS_BY_VIRTUAL = TablesOfVirtual(csvFile)
    /\ TENANTS_BY_ID = TablesOfId(csvFile)
    /\ SMS_SESSIONS = EmptySessions
    /\ monthly_usage = Upsert(Upsert(EmptyUsage, <<1, T1>>, 200), <<1, T2>>, 401)
    /\ stripe_overage_runs = {}
    /\ invoiceItems = NoItems
    /\ clock = 1
    /\ env = EnvAll
    /\ rl = RlIdle
    /\ h = [w \in Handlers |-> HIdle]
    /\ run = [r \in Runs |-> RunIdle]
    /\ chats = 0
    /\ outbox = {}
    /\ bumps = 0

SpecOnboard == InitOnboard /\ [][NextOnboard]_vars

\* One national significant number written in the ways the claim names
N1 == <<"4", "6", "0", "0", "0", "0", "0", "0", "1">>
N2 == <<"4", "6", "0", "0", "0", "0", "0", "0", "2">>
N9 == <<"4", "6", "0", "0", "0", "0", "0", "0", "9">>
\* a landline of Antwerp: area code 3
NAntwerp == <<"3", "2", "1", "2", "3", "4", "5", "6">>

Numbers == {N1, N2, N9, NAntwerp}

\* s with c put in after its first n characters
Insert(s, n, c) == SubSeq(s, 1, n) \o <<c>> \o SubSeq(s, n + 1, Len(s))

FormatsOf(n) ==
    { <<"0">> \o n,
      <<"3", "2">> \o n,
      <<"0", "0", "3", "2">> \o n,
      <<"+", "3", "2">> \o n,
      <<"+", "3", "2", " ">> \o Insert(Insert(n, 3, " "), 6, " "),
      Insert(Insert(<<"0">> \o n, 4, "-"), 7, "-"),
      <<" ">> \o <<"0", "0", "3", "2", " ">> \o Insert(n, 3, "-") \o <<" ">> }

\* texts that are no number of the above
OddInputs == { <<"0", "0", "3", "2", "0">> \o N1,
               <<"0", "1", "2", "3", "4", "5", "6", "7", "8", "9", "0", "1">>,
               <<"0", "0", "0", "3", "2", "1", "2", "3", "4", "5">>,
               <<"-", " ">> }

PhoneInputs == UNION {FormatsOf(n) : n \in Numbers} \cup OddInputs

\* get_tenant_by_receiver(raw) on its own, as the handlers call it
Resolve(w) ==
    /\ NextRequest(w)
    /\ \E raw \in PhoneInputs :
          h' = [h EXCEPT ![w] = Looked(raw, "", get_tenant_by_receiver(raw), "", "done")]
    /\ UNCHANGED <<csvFile, TENANTS_BY_VIRTUAL, TENANTS_BY_ID, SMS_SESSIONS, monthly_usage,
                   stripe_overage_runs, invoiceItems, clock, env, rl, run, chats, outbox, bumps>>

NextPhone == \E w \in Handlers : Resolve(w)

InitPhone == InitFresh /\ env = EnvAll

SpecPhone == InitPhone /\ [][NextPhone]_vars

----------------------------------------------------------------------------
(* Billing: the claims *)

Keys == Months \X {T1, T2}

\* run r had its invoice item for key created and then failed to write the marker
Unmarked(key) == \E r \in Runs : run[r].month = key[1] /\ key[2] \in run[r].unmarked

\* Stripe failed run r on the tenant of key
Declined(r, key) == run[r].month = key[1] /\ key[2] \in run[r].declined

\* C1: across billing runs made one after another, interleaved with usage increments,
\* at most one invoice item is created for every (month, tenant_id)
C1_AtMostOneItem == \A key \in Keys : Len(ItemsOf(key)) <= 1

\* C2: billing runs of the same month that overlap create one invoice item for the
\* tenant, never two: where every marker write after an item succeeded, no
\* (month, tenant_id) has two items
C2_OverlapOneCall == \A key \in Keys : ~Unmarked(key) => Len(ItemsOf(key)) <= 1

\* C3: when the item of (month, tenant_id) was created and the write of its marker then
\* failed, no later run creates a second item for that pair
C3_NoDoubleCharge == \A key \in Keys : Unmarked(key) => Len(ItemsOf(key)) <= 1

\* the step of run r in which Stripe fails
StripeFails(r) == run[r].pc = "invoice" /\ run'[r] # run[r] /\ invoiceItems' = invoiceItems

\* the step of run r in which Stripe creates the item
StripeCreates(r) == run[r].pc = "invoice" /\ run'[r] # run[r] /\ invoiceItems' # invoiceItems

\* the step of run r in which the marker after an item is written
MarkerWritten(r) ==
    run[r].pc = "mark" /\ run'[r] # run[r] /\ RowTenant(run[r]) \notin run'[r].unmarked

RowKey(r) == <<run[r].month, RowTenant(run[r])>>

\* C4: when Stripe fails for a tenant, no marker is written and the run goes on with the
\* next row (or ends with 200 after the last), and the run never writes that tenant's
\* marker afterwards; in a run of the same month that comes to the tenant after such a
\* failure, a call to Stripe that succeeds creates the item and goes on to the marker
\* write, which adds the marker and reports the tenant as created
C4_FailureLeavesRetry ==
    [][\A r \in Runs :
          /\ StripeFails(r) =>
                /\ stripe_overage_runs' = stripe_overage_runs
                /\ RowTenant(run[r]) \in run'[r].declined
                /\ IF run[r].i < Len(run[r].rows)
                   THEN run'[r].pc = "tenant" /\ run'[r].i = run[r].i + 1
                   ELSE run'[r].pc = "done" /\ run'[r].http = 200
          /\ \A t \in run[r].declined :
                run'[r] # run[r] =>
                   (<<run[r].month, t>> \in stripe_overage_runs'
                       => <<run[r].month, t>> \in stripe_overage_runs)
          /\ (StripeCreates(r) /\ \E q \in Runs \ {r} : Declined(q, RowKey(r))) =>
                /\ invoiceItems'[RowKey(r)] = Append(ItemsOf(RowKey(r)), Item(run[r]))
                /\ run'[r].pc = "mark"
                /\ stripe_overage_runs' = stripe_overage_runs
          /\ (MarkerWritten(r) /\ \E q \in Runs \ {r} : Declined(q, RowKey(r))) =>
                /\ stripe_overage_runs' = stripe_overage_runs \cup {RowKey(r)}
                /\ RowTenant(run[r]) \in run'[r].result.created
      ]_vars

\* Stripe failed one run on a tenant, the run went on to its next row and ended with 200,
\* its next row included, and a later run billed the tenant: one item, the marker written
C4_Witness ==
    \E q \in Runs, r \in Runs, key \in Keys :
        /\ q # r
        /\ Declined(q, key) /\ run[q].pc = "done" /\ run[q].http = 200
        /\ run[q].result.no_customer + Cardinality(run[q].result.created) = 1
        /\ run[r].month = key[1] /\ key[2] \in run[r].result.created
        /\ key \in stripe_overage_runs
        /\ Len(ItemsOf(key)) = 1

\* C7: outbound_count is never negative and never decreases
C7_CountOnlyGrows ==
    [][\A key \in DOMAIN monthly_usage' :
          /\ monthly_usage'[key] >= 0
          /\ key \in DOMAIN monthly_usage => monthly_usage'[key] >= monthly_usage[key]
      ]_vars

----------------------------------------------------------------------------
(* The webhooks: the claims *)

TenantIds == {T1, T2}

\* a 2xx answer of the gateway
TwoXX(outcome) == ~outcome.raised /\ outcome.status_code \in 200..299

\* the requests whose send the gateway confirmed but whose increment the database refused
MeterLost == {w \in Handlers : h[w].metered = "failed"}

\* the outbound_count that fetch_month_usage(month) reports for tenant_id, 0 without a row
Reported(month, tenant_id) ==
    LET rows == fetch_month_usage(month)
        at   == {n \in 1..Len(rows) : rows[n][1] = tenant_id}
    IN  IF at = {} THEN 0 ELSE rows[CHOOSE n \in at : TRUE][2]

\* the requests for tenant_id whose send the gateway confirmed and whose increment was
\* made in month
ConfirmedSends(month, tenant_id) ==
    {w \in Handlers : /\ h[w].pc = "done"
                      /\ TwoXX(h[w].gateway)
                      /\ h[w].month = month
                      /\ h[w].tenant.tenant_id = tenant_id}

\* C5: with DATABASE_URL set, on a database that starts without usage rows and refuses
\* no increment, with no administrative adjustment: whatever the interleaving of the
\* requests, fetch_month_usage reports for every (month, tenant_id) exactly the number
\* of sends the gateway confirmed for it
C5_NoLostUpdate ==
    \A m \in Months, t \in TenantIds :
        (db_available /\ MeterLost = {}) =>
            Reported(m, t) = Cardinality(ConfirmedSends(m, t))

\* every request sent to the same tenant in the same month, each was confirmed and
\* counted, and the usage reported is their number
C5_Witness ==
    \E m \in Months, t \in TenantIds :
        /\ db_available
        /\ ConfirmedSends(m, t) = Handlers
        /\ MeterLost = {}
        /\ Reported(m, t) = MaxHandlers

\* the step in which request w leaves send_sms at the gateway
LeavesSend(w) == h[w].pc = "send" /\ h'[w].pc # "send"

\* C6: send_sms changes no counter itself and goes on to the increment exactly when
\* recipient, message and credentials are there and the gateway answered 2xx; in every
\* other case it returns to the handler, which ends; a counter changes only in the
\* increment of a request whose send the gateway confirmed, and by exactly 1 in the
\* current month of that request's tenant
C6_MeterOnlyConfirmed ==
    [][/\ \A w \in Handlers :
             LeavesSend(w) =>
                /\ monthly_usage' = monthly_usage
                /\ h'[w].pc = IF /\ h[w].to # "" /\ h[w].reply # "" /\ env.sms
                                 /\ TwoXX(h'[w].gateway)
                              THEN "bump" ELSE "done"
       /\ monthly_usage' # monthly_usage =>
             \E w \in Handlers :
                /\ h[w].pc = "bump" /\ h'[w].pc = "done"
                /\ TwoXX(h[w].gateway)
                /\ monthly_usage' = Upsert(monthly_usage, <<clock, h[w].tenant.tenant_id>>, 1)
      ]_vars

\* the gateway answered 300 to one request and raised on another: both ended with no
\* counter changed
C6_Witness ==
    \E w \in Handlers, v \in Handlers :
        /\ h[w].pc = "done" /\ h[w].gateway = Response(300) /\ h[w].metered = "none"
        /\ h[v].pc = "done" /\ h[v].gateway = Raised /\ h[v].metered = "none"
        /\ monthly_usage = EmptyUsage

\* C8: two inbound messages of the same phone to the same tenant are answered within
\* the same conversation handle: no two requests of one key hold different chat ids
C8_OneSessionPerKey ==
    \A w \in Handlers, v \in Handlers :
        (/\ SessionKey(h[w]) = SessionKey(h[v])
         /\ h[w].chat_id # NoChat
         /\ h[v].chat_id # NoChat) => h[w].chat_id = h[v].chat_id

\* C9: a chat id stored in SMS_SESSIONS is never overwritten or removed
C9_StoredHandleKept ==
    [][\A key \in DOMAIN SMS_SESSIONS :
          key \in DOMAIN SMS_SESSIONS' /\ SMS_SESSIONS'[key] = SMS_SESSIONS[key]]_vars

----------------------------------------------------------------------------
(* The reload: the claims *)

\* C10: a lookup made during a reload never misses a virtual number that the table
\* before the reload and the table being loaded both hold
C10_LookupNeverTorn == \A w \in Handlers : ~h[w].torn

----------------------------------------------------------------------------
(* The reload: the claims, continued *)

\* C11: a reload that finds no file at TENANTS_CSV_PATH leaves TENANTS_BY_VIRTUAL and
\* TENANTS_BY_ID as they were when the reload began
C11_MissingSourceKeepsTables ==
    [][(rl.pc = "open" /\ ~csvFile.exists /\ rl'.pc = "idle") =>
          /\ TENANTS_BY_VIRTUAL' = rl.oldVirtual
          /\ TENANTS_BY_ID' = rl.oldId
      ]_vars

----------------------------------------------------------------------------
(* The phone numbers: the claims *)

\* C12: the ways of writing one number (national with leading 0, with country code 32,
\* with trunk prefix 0032, with +, spaces and dashes) all normalize to 32 followed by
\* the national significant number and resolve to the same tenant, and normalizing a
\* normalized value gives it back
C12_FormatsAgree ==
    /\ \A w \in Handlers :
          h[w].pc = "done" =>
             normalize_phone(normalize_phone(h[w].receiver)) = normalize_phone(h[w].receiver)
    /\ \A n \in Numbers, w \in Handlers, v \in Handlers :
          (/\ h[w].pc = "done" /\ h[w].receiver \in FormatsOf(n)
           /\ h[v].pc = "done" /\ h[v].receiver \in FormatsOf(n)) =>
             /\ normalize_phone(h[w].receiver) = <<"3", "2">> \o n
             /\ normalize_phone(h[v].receiver) = <<"3", "2">> \o n
             /\ h[w].tenant = h[v].tenant

\* the number of t1 was looked up in its national form and, with blanks and a dash, in
\* its trunk form, and both lookups gave t1
C12_Witness ==
    /\ h[1].pc = "done" /\ h[1].receiver = <<"0">> \o N1
    /\ h[2].pc = "done"
    /\ h[2].receiver = <<" ">> \o <<"0", "0", "3", "2", " ">> \o Insert(N1, 3, "-") \o <<" ">>
    /\ h[1].tenant.tenant_id = T1
    /\ h[2].tenant.tenant_id = T1

----------------------------------------------------------------------------
(* The webhooks: the claims, continued *)

\* C13: a request whose event resolves to no tenant ends at once with "OK", 200, and
\* has made no agent call, sent no SMS, changed no counter and stored no session
C13_UnknownReceiverDropped ==
    [][\A w \in Handlers :
          (h[w].pc = "idle" /\ h'[w].pc # "idle" /\ h'[w].tenant = NoTenant) =>
             /\ h'[w].pc = "done"
             /\ h'[w].http = 200
             /\ UNCHANGED <<SMS_SESSIONS, monthly_usage, outbox, chats>>
      ]_vars

\* C14: every request to /sms/inbound and /call/missed is answered with 200
C14_AlwaysAcknowledged == \A w \in Handlers : h[w].pc = "done" => h[w].http = 200

\* the fallback line of a tenant: its opening_line, or the default reply
Fallback(tenant) ==
    IF tenant.opening_line # "" THEN tenant.opening_line ELSE "Bedankt voor je bericht."

\* request w is for a registered tenant that has no agent
Agentless(w) == h[w].tenant # NoTenant /\ h[w].tenant.retell_agent_id = ""

\* tbl with 1 more at key, counted from 0 without a row
OneMore(tbl, key) ==
    [k \in DOMAIN tbl \cup {key} |->
        IF k = key THEN (IF k \in DOMAIN tbl THEN tbl[k] ELSE 0) + 1 ELSE tbl[k]]

\* C15: an inbound message with sender and text for a tenant without agent never
\* reaches the agent (no chat is created, no completion asked, no session stored); its
\* reply is the fallback line of the tenant; send_sms posts it once, to the sender, and
\* when the gateway confirms it the increment adds exactly 1 to the tenant's count of
\* the current month (when the database runs the statement)
C15_AgentlessFallback ==
    [][\A w \in Handlers :
          /\ h'[w].pc \in {"create", "complete"} => h'[w].tenant.retell_agent_id # ""
          /\ Cardinality({m \in outbox' : m.by = w}) <= 1
          /\ (h[w].pc = "ask" /\ Agentless(w) /\ h'[w] # h[w]) =>
                /\ h'[w].pc = "send"
                /\ h'[w].reply = Fallback(h[w].tenant)
                /\ h'[w].to = h[w].to
                /\ UNCHANGED <<SMS_SESSIONS, chats, outbox, monthly_usage>>
          /\ (h[w].pc = "send" /\ Agentless(w) /\ h'[w] # h[w]) =>
                /\ UNCHANGED <<SMS_SESSIONS, chats, monthly_usage>>
                /\ outbox' = IF env.sms /\ TwoXX(h'[w].gateway)
                             THEN outbox \cup {[by |-> w, to |-> h[w].to,
                                                sender |-> h[w].tenant.virtual_number,
                                                message |-> h[w].reply]}
                             ELSE outbox
                /\ h'[w].pc = IF env.sms /\ TwoXX(h'[w].gateway) THEN "bump" ELSE "done"
          /\ (h[w].pc = "bump" /\ Agentless(w) /\ h'[w] # h[w]) =>
                /\ UNCHANGED <<SMS_SESSIONS, chats, outbox>>
                /\ h'[w].pc = "done" /\ h'[w].http = 200
                /\ monthly_usage' =
                      IF h'[w].metered = "ok"
                      THEN OneMore(monthly_usage, <<clock, h[w].tenant.tenant_id>>)
                      ELSE monthly_usage
      ]_vars

\* a message for t2, which has no agent, was answered with the default reply, the
\* gateway confirmed it and it was counted; no chat exists and no session is stored
C15_Witness ==
    \E w \in Handlers :
        /\ h[w].pc = "done" /\ h[w].http = 200
        /\ h[w].tenant.tenant_id = T2 /\ h[w].metered = "ok"
        /\ [by |-> w, to |-> "32499000000", sender |-> V2Trk,
            message |-> "Bedankt voor je bericht."] \in outbox
        /\ monthly_usage[<<h[w].month, T2>>] >= 1
        /\ chats = 0 /\ SMS_SESSIONS = EmptySessions

----------------------------------------------------------------------------
(* Billing: the claims, continued *)

\* the messages a plan includes, however the plan is capitalised in the CSV
AllowanceOf(plan) ==
    IF plan \in {"basic", "Basic"} THEN 200
    ELSE IF plan \in {"advanced", "Advanced"} THEN 400 ELSE 0

C17_NoExtraMarked ==
    [][/\ \A r \in Runs :
             /\ (run[r].pc = "marker" /\ run'[r].pc = "markNoExtra") =>
                   /\ RowOutbound(run[r]) <= AllowanceOf(run[r].tenant.plan)
                   /\ run'[r].result.no_extra = run[r].result.no_extra + 1
                   /\ UNCHANGED <<invoiceItems, stripe_overage_runs>>
             /\ (run[r].pc = "markNoExtra" /\ run'[r] # run[r] /\ run'[r].http # 500) =>
                   /\ stripe_overage_runs' = stripe_overage_runs \cup {RowKey(r)}
                   /\ run'[r].result.no_extra = run[r].result.no_extra
                   /\ UNCHANGED invoiceItems
             /\ (/\ run[r].pc = "marker" /\ run'[r] # run[r] /\ run'[r].http # 500
                 /\ RowKey(r) \in stripe_overage_runs) =>
                   /\ run'[r].result.already_run = run[r].result.already_run + 1
                   /\ run'[r].pc \in {"tenant", "done"}
                   /\ UNCHANGED <<invoiceItems, stripe_overage_runs>>
       /\ invoiceItems' # invoiceItems =>
             \A key \in stripe_overage_runs : ItemsOf(key)' = ItemsOf(key)
      ]_vars

\* a run found t1 at its allowance and marked it; its usage then rose to 201 and a later
\* run of the same month skipped it as already_run: no item exists for it
C17_Witness ==
    \E q \in Runs, r \in Runs :
        /\ q # r
        /\ run[q].pc = "done" /\ run[q].month = 1 /\ run[q].result.no_extra = 1
        /\ run[r].pc = "done" /\ run[r].month = 1 /\ run[r].result.already_run = 1
        /\ <<1, T1>> \in stripe_overage_runs
        /\ monthly_usage[<<1, T1>>] = 201
        /\ ItemsOf(<<1, T1>>) = <<>>

----------------------------------------------------------------------------
(* The reload: the claims, continued *)

\* the key of row i of rows in TENANTS_BY_VIRTUAL
KeyOfRow(rows, i) == normalize_phone(TenantOf(rows[i]).virtual_number)

\* the first row of rows that has the number of row i
FirstWithNumber(rows, i) ==
    CHOOSE j \in 1..i :
        /\ ~RowSkipped(rows[j]) /\ KeyOfRow(rows, j) = KeyOfRow(rows, i)
        /\ \A k \in 1..(j - 1) : RowSkipped(rows[k]) \/ KeyOfRow(rows, k) # KeyOfRow(rows, i)

\* C18: after a reload, every virtual number of the file resolves to the first row that
\* has it, and a later row with the same number is in neither table
C18_FirstRowWins ==
    (rl.pc = "idle" /\ rl.rows # <<>>) =>
        \A i \in 1..Len(rl.rows) :
            ~RowSkipped(rl.rows[i]) =>
               /\ Get(TENANTS_BY_VIRTUAL, KeyOfRow(rl.rows, i)) =
                     TenantOf(rl.rows[FirstWithNumber(rl.rows, i)])
               /\ FirstWithNumber(rl.rows, i) # i =>
                     TenantOf(rl.rows[i]).tenant_id \notin DOMAIN TENANTS_BY_ID

----------------------------------------------------------------------------
(* Billing: the claims, continued *)

\* the stripe_customer_id that TENANTS_BY_ID holds for tenant_id, "" when it holds none
AccountOf(tenant_id) ==
    IF tenant_id \in DOMAIN TENANTS_BY_ID
    THEN TENANTS_BY_ID[tenant_id].stripe_customer_id ELSE ""

\* C19: a usage row whose tenant has no stripe_customer_id, or is not in TENANTS_BY_ID,
\* is counted under no_customer and the run goes to its next row without reading the
\* marker: no item is created and no marker written; a row whose tenant has one goes on
\* to the marker
C19_NoAccountNoMarker ==
    [][\A r \in Runs :
          (run[r].pc = "tenant" /\ run'[r] # run[r]) =>
             /\ UNCHANGED <<stripe_overage_runs, invoiceItems>>
             /\ IF AccountOf(RowTenant(run[r])) = ""
                THEN /\ run'[r].pc \in {"tenant", "done"}
                     /\ run'[r].http \in {0, 200}
                     /\ run'[r].result =
                           [run[r].result EXCEPT !.no_customer = @ + 1]
                ELSE /\ run'[r].pc = "marker"
                     /\ run'[r].result = run[r].result
      ]_vars

\* a run skipped t2, which had no billing account and was over its allowance, and
\* counted t1 under no_extra; the account of t2 was then configured and the tenants
\* reloaded, and a later run of the same month billed t2: one item, for cus_2
C19_Witness ==
    \E q \in Runs, r \in Runs :
        /\ q # r
        /\ run[q].pc = "done" /\ run[q].http = 200 /\ run[q].month = 1
        /\ run[q].result.no_customer = 1 /\ run[q].result.no_extra = 1
        /\ run[r].pc = "done" /\ run[r].month = 1 /\ T2 \in run[r].result.created
        /\ Len(ItemsOf(<<1, T2>>)) = 1
        /\ ItemsOf(<<1, T2>>)[1].customer = "cus_2"
        /\ <<1, T2>> \in stripe_overage_runs

----------------------------------------------------------------------------
(* The webhooks: the claims, continued *)

\* C20: an increment that the usage store did not make (DATABASE_URL not set, or the
\* statement raised) gives send_sms something else than an increment that was made
C20_FailureReported ==
    \A w \in Handlers, v \in Handlers :
        (h[w].metered = "ok" /\ h[v].metered \in {"failed", "disabled"}) =>
            h[w].increment # h[v].increment

----------------------------------------------------------------------------
(* The webhooks: the claims, continued *)

\* the positions of the agent's messages in an answer of create-chat-completion
AgentAuthored(messages) == {i \in 1..Len(messages) : messages[i].role = "agent"}

\* the content of the last message the agent wrote, "" when it wrote none
LastContent(messages) ==
    IF AgentAuthored(messages) = {} THEN ""
    ELSE messages[CHOOSE i \in AgentAuthored(messages) :
                     \A j \in AgentAuthored(messages) : j <= i].content

\* an answer holds a reply that can be used: the call worked and the last message of
\* the agent is not blank
Usable(answer) == answer.ok /\ LastContent(answer.messages) \notin {"", " "}

\* C21: a request for a tenant with an agent goes from the lookup of the session to
\* create-chat or to create-chat-completion and from there to send_sms, never back; the
\* reply it hands to send_sms is the content of the last message of the agent when the
\* completion holds one that is not blank, and the fallback line of the tenant when no
\* chat could be created or the completion failed, holds no message of the agent or a
\* blank one; send_sms posts that reply, at most once, and the increment follows the
\* confirmed send, once
C21_AgentReplyOrFallback ==
    [][\A w \in Handlers :
          /\ h'[w].pc = "create" => h[w].pc \in {"ask", "create"}
          /\ h'[w].pc = "complete" => h[w].pc \in {"ask", "create", "complete"}
          /\ h'[w].pc = "send" => h[w].pc \in {"idle", "ask", "create", "complete", "send"}
          /\ h'[w].pc = "bump" => h[w].pc \in {"send", "bump"}
          /\ h[w].pc = "done" => h'[w] = h[w]
          /\ (h[w].pc \in {"ask", "create"} /\ h'[w].pc = "send") =>
                /\ h'[w].reply = Fallback(h[w].tenant)
                /\ UNCHANGED <<outbox, monthly_usage>>
          /\ (h[w].pc = "complete" /\ h'[w].pc # "complete") =>
                /\ h[w].tenant.retell_agent_id # "" /\ h[w].chat_id # NoChat
                /\ h'[w].pc = "send"
                /\ h'[w].reply = IF Usable(h'[w].answer)
                                 THEN LastContent(h'[w].answer.messages)
                                 ELSE Fallback(h[w].tenant)
                /\ UNCHANGED <<outbox, monthly_usage>>
          /\ (h[w].pc = "send" /\ h'[w].pc # "send") =>
                /\ outbox' \in {outbox, outbox \cup {[by |-> w, to |-> h[w].to,
                                                     sender |-> h[w].tenant.virtual_number,
                                                     message |-> h[w].reply]}}
                /\ h'[w].pc = "bump" <=> outbox' # outbox
                /\ monthly_usage' = monthly_usage
          /\ Cardinality({m \in outbox' : m.by = w}) <= 1
          /\ (h[w].pc = "bump" /\ h'[w].pc # "bump") =>
                /\ h'[w].pc = "done"
                /\ monthly_usage' \in
                      {monthly_usage, OneMore(monthly_usage, <<clock, h[w].tenant.tenant_id>>)}
                /\ outbox' = outbox
      ]_vars

\* t1 has an agent: one message to it was answered with the last message of the agent,
\* "Hallo", and another, whose completion gave no usable message, with the opening
\* line of t1; both were sent and counted
C21_Witness ==
    \E w \in Handlers, v \in Handlers :
        /\ h[w].pc = "done" /\ h[w].tenant.tenant_id = T1 /\ h[w].metered = "ok"
        /\ h[v].pc = "done" /\ h[v].tenant.tenant_id = T1 /\ h[v].metered = "ok"
        /\ env.retell /\ chats >= 1
        /\ \E m \in outbox : m.by = w /\ m.message = "Hallo" /\ m.to = "32499000000"
        /\ \E m \in outbox : m.by = v /\ m.message = "Welkom" /\ m.to = "32499000000"

\* the payload is one event object, or a sequence of exactly one event object
SingleEvent(payload) ==
    \/ payload.kind = "object" /\ Head(payload.items).type = "object"
    \/ payload.kind = "list" /\ Len(payload.items) = 1 /\ Head(payload.items).type = "object"

\* C22: every payload with which a request resolves a tenant and goes on to the reply
\* or to send_sms is a single event object or a sequence of one event object: no other
\* payload makes sms_inbound or call_missed take the step the request took
C22_OnlySingleEventHandled ==
    [][\A w \in Handlers :
          (h[w].pc = "idle" /\ h'[w].pc \in {"ask", "send"}) =>
              \A payload \in Payloads :
                  h'[w] \in {sms_inbound(payload), call_missed(payload)} =>
                      SingleEvent(payload)
      ]_vars

\* the tenant that the registry holds for receiver R
ResolvedFrom(R) == TENANTS_BY_VIRTUAL[normalize_phone(R)]

\* request w has passed send_sms, or is in it
InSend(w) == h[w].pc \in {"send", "bump", "done"}

\* C23: a step of a request for receiver R adds at most one message to those sent, and
\* the request sends one message at most; its sender is the virtual number of the tenant
\* that the registry holds for R; the step changes at most the count of that tenant in
\* the current month, by one; it leaves the markers, the invoice items and the
\* registry as they are. A missed call goes from the lookup to send_sms: from there on
\* no step of the request changes the sessions
C23_OnlyOwnTenantTouched ==
    [][\A w \in Handlers :
          h'[w] # h[w] =>
              /\ UNCHANGED <<stripe_overage_runs, invoiceItems, TENANTS_BY_VIRTUAL,
                             TENANTS_BY_ID, csvFile>>
              /\ \A m \in outbox' \ outbox :
                    /\ m.by = w /\ h[w].pc = "send"
                    /\ normalize_phone(h[w].receiver) \in DOMAIN TENANTS_BY_VIRTUAL
                    /\ m.sender = ResolvedFrom(h[w].receiver).virtual_number
              /\ outbox \subseteq outbox'
              /\ Cardinality({m \in outbox' : m.by = w}) <= 1
              /\ h[w].pc = "send" => h'[w].pc \in {"bump", "done"}
              /\ monthly_usage' # monthly_usage =>
                    /\ h[w].pc = "bump" /\ h'[w].pc = "done"
                    /\ normalize_phone(h[w].receiver) \in DOMAIN TENANTS_BY_VIRTUAL
                    /\ monthly_usage' =
                          OneMore(monthly_usage,
                                  <<clock, ResolvedFrom(h[w].receiver).tenant_id>>)
              /\ h[w].pc = "idle" => UNCHANGED <<outbox, monthly_usage, SMS_SESSIONS>>
              /\ InSend(w) => InSend(w)' /\ UNCHANGED SMS_SESSIONS
      ]_vars

\* a missed call to the number of t2 was answered with the greeting, sent from the
\* number of t2 and counted for t2 in the month of the increment, and a message to the
\* number of t1 was answered by the agent from the number of t1 and counted for t1:
\* there is no other count, and the only session is the one of the message
C23_Witness ==
    \E w \in Handlers, v \in Handlers :
        /\ h[w].pc = "done" /\ h[w].metered = "ok" /\ h[w].receiver = V2
        /\ h[v].pc = "done" /\ h[v].metered = "ok" /\ h[v].receiver = V1Nat
        /\ outbox = {[by |-> w, sender |-> V2Trk, to |-> "32499000000",
                      message |-> DefaultGreeting],
                     [by |-> v, sender |-> V1Int, to |-> "32499000000", message |-> "Hallo"]}
        /\ DOMAIN monthly_usage = {<<h[w].month, T2>>, <<h[v].month, T1>>}
        /\ \A k \in DOMAIN monthly_usage : monthly_usage[k] = 1
        /\ DOMAIN SMS_SESSIONS = {<<T1, "32499000000">>}
        /\ stripe_overage_runs = {}

====
